---- MODULE Spec2Model ----
(***************************************************************************)
(* State engine of the hivemind sidechain: the four tables of State, the   *)
(* transaction filler, the delta accumulator, the validator and the        *)
(* connector, as written in src/state/src/lib.rs and src/types/src/lib.rs. *)
(***************************************************************************)
EXTENDS Integers, Sequences, FiniteSets, TLC

\* The four databases of State (lib.rs 15-22), the last call made on the
\* engine with what it returned, and the number of blocks connected so far.
VARIABLES utxos, vectors, markets, market_to_positions, last, blocks

vars == <<utxos, vectors, markets, market_to_positions, last, blocks>>

----------------------------------------------------------------------------
\* Bounds of the model.

\* Transactions in one block body.
MaxBodyTxs == 2
\* Blocks committed in one behaviour.
MaxBlocks == 1
\* Heights handed to validate_transaction are 0..MaxHeight.
MaxHeight == 2
\* Coinbase outputs in one block body.
MaxCoinbase == 2

----------------------------------------------------------------------------
\* Results of a call: Ok(v), Err(kind, outpoint), or a panic of the thread.

NoOutPoint == <<0, 0>>

Ok(v) == [tag |-> "Ok", val |-> v, err |-> "", at |-> NoOutPoint]

Err(kind, outpoint) == [tag |-> "Err", val |-> 0, err |-> kind, at |-> outpoint]

Panic(why) == [tag |-> "Panic", val |-> 0, err |-> why, at |-> NoOutPoint]

IsOk(r) == r.tag = "Ok"

\* The ? of the source: the rest of the computation runs on the value of an Ok
\* and anything else is returned as it is.
Try(r, Rest(_)) == IF IsOk(r) THEN Rest(r.val) ELSE r

IsErr(r, kind) == r.tag = "Err" /\ r.err = kind

----------------------------------------------------------------------------
\* Tables: heed databases as functions from the keys present to their values.

EmptyTable == <<>>

Put(table, key, value) ==
    [k \in (DOMAIN table) \cup {key} |-> IF k = key THEN value ELSE table[k]]

Delete(table, key) == [k \in (DOMAIN table) \ {key} |-> table[k]]

Store(u, v, m, p) ==
    [utxos |-> u, vectors |-> v, markets |-> m, market_to_positions |-> p]

EmptyStore == Store(EmptyTable, EmptyTable, EmptyTable, EmptyTable)

\* The store held by the variables.
Current == Store(utxos, vectors, markets, market_to_positions)

----------------------------------------------------------------------------
\* Content schema (types lib.rs 16-44) and the persisted Market (59-64).
\* The Decision's query hash is carried by no rule of the engine and is left out.

Value(v) == [tag |-> "Value", value |-> v]

Decision(size, resolvable_height) ==
    [tag |-> "Decision", size |-> size, resolvable_height |-> resolvable_height]

Resolution(decision, outcome) ==
    [tag |-> "Resolution", decision |-> decision, outcome |-> outcome]

MarketContent(b, decisions) == [tag |-> "Market", b |-> b, decisions |-> decisions]

Position(market, share, value) ==
    [tag |-> "Position", market |-> market, share |-> share, value |-> value]

Output(address, content) == [address |-> address, content |-> content]

None == [some |-> FALSE, v |-> 0]

Some(v) == [some |-> TRUE, v |-> v]

Market(b, shape, decisions, outcomes) ==
    [b |-> b, shape |-> shape, decisions |-> decisions, outcomes |-> outcomes]

\* OutPoint::Regular{txid, vout}; vout counts from 0.
OutPoint(txid, vout) == <<txid, vout>>

\* A transaction with the hash txid() gives it.
Transaction(txid, inputs, outputs) ==
    [txid |-> txid, inputs |-> inputs, outputs |-> outputs]

----------------------------------------------------------------------------
\* Arithmetic helpers.

RECURSIVE SumSeq(_)
SumSeq(q) == IF q = <<>> THEN 0 ELSE Head(q) + SumSeq(Tail(q))

RECURSIVE Product(_)
Product(q) == IF q = <<>> THEN 1 ELSE Head(q) * Product(Tail(q))

Min(a, b) == IF a < b THEN a ELSE b

Zeros(n) == [i \in 1..n |-> 0]

\* Decimal values that are not whole (LMSR costs) are kept as integers counting
\* 1/DecUnit; 6 divides by every market size the model builds (2 and 6).
DecUnit == 6

FromU64(x) == x * DecUnit

\* Decimal::to_u64: None for a negative value, else the integer part.
ToU64(dec) == IF dec < 0 THEN None ELSE Some(dec \div DecUnit)

\* GetValue: the face value of a Value output, 0 for every custom content.
get_value(output) ==
    IF output.content.tag = "Value" THEN output.content.value ELSE 0

\* lmsr_cost(b, state) = b*max_money*ln(sum_i exp(q_i/(b*max_money))).  With
\* max_money = 2.1e15 the exponents are of the order 1e-15, where the function is
\* b*max_money*ln(n) + mean(q) up to terms of order q^2/(b*max_money); the model
\* keeps the mean (in 1/DecUnit) and drops the term constant in q, which cancels
\* in every difference the engine takes.
lmsr_cost(b, state) == (DecUnit * SumSeq(state)) \div Len(state)

\* ln of a market size in millionths; sizes are products of 2s and 3s.
RECURSIVE LnMicro(_)
LnMicro(n) ==
    IF n <= 1 THEN 0
    ELSE IF n % 2 = 0 THEN 693147 + LnMicro(n \div 2)
    ELSE 1098612 + LnMicro(n \div 3)

----------------------------------------------------------------------------
\* fill_transaction: load every input from utxos, in order.

RECURSIVE FillFrom(_, _, _, _)
FillFrom(s, transaction, i, spent_utxos) ==
    IF i > Len(transaction.inputs)
    THEN Ok([spent_utxos |-> spent_utxos, transaction |-> transaction])
    ELSE IF transaction.inputs[i] \notin DOMAIN s.utxos
         THEN Err("NoUtxo", transaction.inputs[i])
         ELSE FillFrom(s, transaction, i + 1,
                       Append(spent_utxos, s.utxos[transaction.inputs[i]]))

\* A fill that leaves out the inputs it does not find.
FillFound(s, transaction) ==
    Ok([spent_utxos |->
            LET found == SelectSeq(transaction.inputs, LAMBDA o : o \in DOMAIN s.utxos)
            IN  [k \in DOMAIN found |-> s.utxos[found[k]]],
        transaction |-> transaction])

fill_transaction(s, transaction) == FillFrom(s, transaction, 1, <<>>)

----------------------------------------------------------------------------
\* share_to_flat_index and get_size.

\* A fold that uses the step before dividing it by the side.
RECURSIVE FlatFoldStale(_, _, _, _, _)
FlatFoldStale(share, shape, i, step, flat_index) ==
    IF i > Min(Len(share), Len(shape))
    THEN flat_index
    ELSE FlatFoldStale(share, shape, i + 1, step \div shape[i],
                       flat_index + share[i] * step)

\* The loop over share zipped with shape (lib.rs 129-132).
RECURSIVE FlatFold(_, _, _, _, _)
FlatFold(share, shape, i, step, flat_index) ==
    IF i > Min(Len(share), Len(shape))
    THEN flat_index
    ELSE LET step1 == step \div shape[i]
         IN  FlatFold(share, shape, i + 1, step1, flat_index + share[i] * step1)

share_to_flat_index(s, market, share) ==
    IF market \notin DOMAIN s.markets
    THEN Err("NoUtxo", market)
    ELSE IF \E i \in 1..Min(Len(share), Len(s.markets[market].shape)) :
               s.markets[market].shape[i] = 0
         THEN Panic("attempt to divide by zero")
         ELSE Ok(FlatFold(share, s.markets[market].shape, 1,
                          Product(s.markets[market].shape), 0))

get_size(s, market) ==
    IF market \notin DOMAIN s.markets
    THEN Err("NoUtxo", market)
    ELSE Ok(Product(s.markets[market].shape))

----------------------------------------------------------------------------
\* get_market_funding_cost: b * ln(size) as a u64, 0 for any other output.

RECURSIVE FundingSize(_, _, _, _)
FundingSize(s, decisions, i, size) ==
    IF i > Len(decisions)
    THEN Ok(size)
    ELSE IF decisions[i] \notin DOMAIN s.utxos
         THEN Err("NoUtxo", decisions[i])
         ELSE IF s.utxos[decisions[i]].content.tag # "Decision"
              THEN Err("InvalidOutPoint", decisions[i])
              ELSE FundingSize(s, decisions, i + 1,
                               size * s.utxos[decisions[i]].content.size)

get_market_funding_cost(s, output) ==
    IF output.content.tag = "Market"
    THEN Try(FundingSize(s, output.content.decisions, 1, 1),
             LAMBDA size : Ok((output.content.b * LnMicro(size)) \div 1000000))
    ELSE Ok(0)

----------------------------------------------------------------------------
\* get_deltas_and_values: per-market share deltas, input value, output value.

VecAdd(a, b) == [i \in 1..Len(a) |-> a[i] + b[i]]

\* One Position of the walk: the market's delta, allocated as zeros on first use,
\* changes by sign * value at the share's flat index (an index past the end panics).
PositionDelta(s, market_to_delta, content, sign) ==
    Try(get_size(s, content.market), LAMBDA size :
        Try(share_to_flat_index(s, content.market, content.share), LAMBDA flat_index :
            LET delta == IF content.market \in DOMAIN market_to_delta
                         THEN market_to_delta[content.market]
                         ELSE Zeros(size)
            IN  IF flat_index >= Len(delta) THEN Panic("index out of bounds")
                ELSE Ok(Put(market_to_delta, content.market,
                            [delta EXCEPT ![flat_index + 1] = @ + sign * content.value]))))

RECURSIVE SpentWalk(_, _, _, _, _)
SpentWalk(s, spent_utxos, i, market_to_delta, input_value) ==
    IF i > Len(spent_utxos)
    THEN Ok([market_to_delta |-> market_to_delta, input_value |-> input_value])
    ELSE LET spent_utxo == spent_utxos[i]
             value == input_value + get_value(spent_utxo)
         IN  IF spent_utxo.content.tag = "Position"
             THEN Try(PositionDelta(s, market_to_delta, spent_utxo.content, -1),
                      LAMBDA d : SpentWalk(s, spent_utxos, i + 1, d, value))
             ELSE SpentWalk(s, spent_utxos, i + 1, market_to_delta, value)

RECURSIVE OutputWalk(_, _, _, _, _)
OutputWalk(s, outputs, i, market_to_delta, output_value) ==
    IF i > Len(outputs)
    THEN Ok([market_to_delta |-> market_to_delta, output_value |-> output_value])
    ELSE Try(get_market_funding_cost(s, outputs[i]), LAMBDA funding :
             LET output == outputs[i]
                 value == output_value + get_value(output) + funding
             IN  IF output.content.tag = "Position"
                 THEN Try(PositionDelta(s, market_to_delta, output.content, 1),
                          LAMBDA d : OutputWalk(s, outputs, i + 1, d, value))
                 ELSE OutputWalk(s, outputs, i + 1, market_to_delta, value))

get_deltas_and_values(s, transaction) ==
    Try(SpentWalk(s, transaction.spent_utxos, 1, EmptyTable, 0), LAMBDA ins :
        Try(OutputWalk(s, transaction.transaction.outputs, 1, ins.market_to_delta, 0),
            LAMBDA outs :
                Ok([market_to_delta |-> outs.market_to_delta,
                    input_value |-> ins.input_value,
                    output_value |-> outs.output_value])))

----------------------------------------------------------------------------
\* Iteration over a HashMap visits its keys in an order the program does not
\* fix: a call is given an order of the outpoints (hash_order) and every map it
\* walks is visited in that order.

Visit(hash_order, table) == SelectSeq(hash_order, LAMBDA k : k \in DOMAIN table)

\* get_cost: the LMSR cost of the deltas, summed over the touched markets.
RECURSIVE CostWalk(_, _, _, _, _)
CostWalk(s, market_to_delta, keys, i, total_cost) ==
    IF i > Len(keys)
    THEN Ok(total_cost)
    ELSE LET market == keys[i]
             delta == market_to_delta[market]
         IN  IF market \notin DOMAIN s.vectors THEN Err("NoUtxo", market)
             ELSE IF market \notin DOMAIN s.utxos THEN Err("NoUtxo", market)
             ELSE IF s.utxos[market].content.tag # "Market" THEN Panic("unreachable")
             ELSE IF Len(s.vectors[market]) # Len(delta) THEN Panic("dimension mismatch")
             ELSE LET b == s.utxos[market].content.b
                      state == s.vectors[market]
                      cost == lmsr_cost(b, VecAdd(state, delta)) - lmsr_cost(b, state)
                  IN  CostWalk(s, market_to_delta, keys, i + 1, total_cost + cost)

get_cost(s, market_to_delta, hash_order) ==
    CostWalk(s, market_to_delta, Visit(hash_order, market_to_delta), 1, 0)

----------------------------------------------------------------------------
\* validate_transaction.

\* A spent Market: every decision it names is loaded and must not be past its
\* resolvable height.
RECURSIVE MarketDecisions(_, _, _, _)
MarketDecisions(s, decisions, height, j) ==
    IF j > Len(decisions)
    THEN Ok(0)
    ELSE IF decisions[j] \notin DOMAIN s.utxos
         THEN Err("NoUtxo", decisions[j])
         ELSE IF s.utxos[decisions[j]].content.tag # "Decision"
              THEN Panic("unreachable")
              ELSE IF height > s.utxos[decisions[j]].content.resolvable_height
                   THEN Err("MarketUsingResolvableDecision", NoOutPoint)
                   ELSE MarketDecisions(s, decisions, height, j + 1)

\* The scan of the inputs with their spent utxos (lib.rs 183-223).
RECURSIVE Lifecycle(_, _, _, _, _, _)
Lifecycle(s, transaction, height, i, resolved_decisions, spent_decisions) ==
    IF i > Min(Len(transaction.transaction.inputs), Len(transaction.spent_utxos))
    THEN Ok([resolved_decisions |-> resolved_decisions,
             spent_decisions |-> spent_decisions])
    ELSE LET outpoint == transaction.transaction.inputs[i]
             content == transaction.spent_utxos[i].content
         IN  IF content.tag = "Decision"
             THEN IF content.resolvable_height < height
                  THEN Err("DecisionSpentEarly", NoOutPoint)
                  ELSE Lifecycle(s, transaction, height, i + 1, resolved_decisions,
                                 Append(spent_decisions, outpoint))
             ELSE IF content.tag = "Resolution"
             THEN Lifecycle(s, transaction, height, i + 1,
                            resolved_decisions \cup {content.decision}, spent_decisions)
             ELSE IF content.tag = "Market"
             THEN Try(MarketDecisions(s, content.decisions, height, 1),
                      LAMBDA m : Lifecycle(s, transaction, height, i + 1,
                                           resolved_decisions, spent_decisions))
             ELSE Lifecycle(s, transaction, height, i + 1,
                            resolved_decisions, spent_decisions)

\* Every spent decision must be among the resolved ones (lib.rs 224-228).
Resolved(scan) ==
    \A k \in 1..Len(scan.spent_decisions) :
        scan.spent_decisions[k] \in scan.resolved_decisions

\* The value check without the trade cost.
ValueCheckWithoutCost(cost, input_value, output_value) ==
    FromU64(output_value) > FromU64(input_value)

\* The value check (lib.rs 233).
NotEnoughValueIn(cost, input_value, output_value) ==
    cost + FromU64(output_value) > FromU64(input_value)

\* The fee (lib.rs 236-237), given the cost as a u64.
Fee(input_value, cost, output_value) == input_value - cost + output_value

validate_transaction(s, transaction, height, hash_order) ==
    Try(Lifecycle(s, transaction, height, 1, {}, <<>>), LAMBDA scan :
        IF ~Resolved(scan)
        THEN Err("DecisionSpentWithoutResolution", NoOutPoint)
        ELSE Try(get_deltas_and_values(s, transaction), LAMBDA dv :
                 Try(get_cost(s, dv.market_to_delta, hash_order), LAMBDA cost :
                     IF NotEnoughValueIn(cost, dv.input_value, dv.output_value)
                     THEN Err("NotEnoughValueIn", NoOutPoint)
                     ELSE IF ~ToU64(cost).some THEN Err("U64Overflow", NoOutPoint)
                     ELSE Ok(Fee(dv.input_value, ToU64(cost).v, dv.output_value)))))

----------------------------------------------------------------------------
\* validate_body.

Body(transactions, coinbase) == [transactions |-> transactions, coinbase |-> coinbase]

\* The loop of validate_body that forgets to record the inputs it has seen.
RECURSIVE BodyWalkForgetful(_, _, _, _, _, _, _)
BodyWalkForgetful(s, transactions, t, i, spent, fee_value, hash_order) ==
    IF t > Len(transactions)
    THEN Ok(fee_value)
    ELSE IF i > Len(transactions[t].inputs)
    THEN BodyWalkForgetful(s, transactions, t + 1, 1, spent, fee_value, hash_order)
    ELSE LET input == transactions[t].inputs[i]
         IN  IF input \in spent THEN Err("UtxoDoubleSpent", input)
             ELSE Try(fill_transaction(s, transactions[t]), LAMBDA filled :
                      Try(validate_transaction(s, filled, 0, hash_order), LAMBDA fee :
                          BodyWalkForgetful(s, transactions, t, i + 1, spent,
                                            fee_value + fee, hash_order)))

\* The loop of validate_body that validates at a height past every decision's
\* resolvable height instead of 0.
RECURSIVE BodyWalkAtHeight(_, _, _, _, _, _, _)
BodyWalkAtHeight(s, transactions, t, i, spent, fee_value, hash_order) ==
    IF t > Len(transactions)
    THEN Ok(fee_value)
    ELSE IF i > Len(transactions[t].inputs)
    THEN BodyWalkAtHeight(s, transactions, t + 1, 1, spent, fee_value, hash_order)
    ELSE LET input == transactions[t].inputs[i]
         IN  IF input \in spent THEN Err("UtxoDoubleSpent", input)
             ELSE Try(fill_transaction(s, transactions[t]), LAMBDA filled :
                      Try(validate_transaction(s, filled, MaxHeight, hash_order),
                          LAMBDA fee :
                              BodyWalkAtHeight(s, transactions, t, i + 1,
                                               spent \cup {input}, fee_value + fee,
                                               hash_order)))

\* The loop over the transactions and, inside it, over the inputs of each
\* (lib.rs 245-254): t and i are the transaction and the input the walk is at.
RECURSIVE BodyWalk(_, _, _, _, _, _, _)
BodyWalk(s, transactions, t, i, spent, fee_value, hash_order) ==
    IF t > Len(transactions)
    THEN Ok(fee_value)
    ELSE IF i > Len(transactions[t].inputs)
    THEN BodyWalk(s, transactions, t + 1, 1, spent, fee_value, hash_order)
    ELSE LET input == transactions[t].inputs[i]
         IN  IF input \in spent THEN Err("UtxoDoubleSpent", input)
             ELSE Try(fill_transaction(s, transactions[t]), LAMBDA filled :
                      Try(validate_transaction(s, filled, 0, hash_order), LAMBDA fee :
                          BodyWalk(s, transactions, t, i + 1, spent \cup {input},
                                   fee_value + fee, hash_order)))

RECURSIVE CoinbaseValue(_)
CoinbaseValue(coinbase) ==
    IF coinbase = <<>> THEN 0
    ELSE get_value(Head(coinbase)) + CoinbaseValue(Tail(coinbase))

validate_body(s, body, hash_order) ==
    Try(BodyWalk(s, body.transactions, 1, 1, {}, 0, hash_order), LAMBDA fee_value :
        IF CoinbaseValue(body.coinbase) > fee_value
        THEN Err("NotEnoughFeeValue", NoOutPoint)
        ELSE Ok(0))

----------------------------------------------------------------------------
\* connect_body.  The walk carries the tables as the write transaction sees
\* them (s), the two block-local maps and the result so far; a step after a
\* failure does nothing.

Run(s, decision_to_outcome, body_market_to_delta, res) ==
    [s |-> s, decision_to_outcome |-> decision_to_outcome,
     body_market_to_delta |-> body_market_to_delta, res |-> res]

Failed(c, res) == [c EXCEPT !.res = res]

\* The ? of the source inside connect_body: a result that is not Ok ends the run.
TryIn(c, r, Rest(_)) == IF IsOk(r) THEN Rest(r.val) ELSE Failed(c, r)

\* The shape of a new market: the sizes of its decisions (lib.rs 299-312).
RECURSIVE Shape(_, _, _, _)
Shape(s, decisions, i, shape) ==
    IF i > Len(decisions)
    THEN Ok(shape)
    ELSE IF decisions[i] \notin DOMAIN s.utxos
         THEN Err("NoUtxo", decisions[i])
         ELSE IF s.utxos[decisions[i]].content.tag # "Decision"
              THEN Panic("unreachable")
              ELSE Shape(s, decisions, i + 1,
                         Append(shape, s.utxos[decisions[i]].content.size))

\* What a Market output writes besides its utxo (lib.rs 313-324).
CreateMarket(s, outpoint, content, shape) ==
    [s EXCEPT !.markets =
        Put(@, outpoint,
            Market(content.b, shape, content.decisions,
                   [k \in 1..Len(shape) |-> None]))]

\* One output of a transaction (lib.rs 276-328).
ConnectOutput(c, outpoint, output) ==
    LET s1 == [c.s EXCEPT !.utxos = Put(@, outpoint, output)]
        c1 == [c EXCEPT !.s = s1]
        content == output.content
    IN  IF content.tag = "Position"
        THEN IF content.market \notin DOMAIN s1.market_to_positions
             THEN Failed(c1, Err("NoUtxo", content.market))
             ELSE [c1 EXCEPT !.s.market_to_positions =
                      Put(@, content.market, Append(@[content.market], outpoint))]
        ELSE IF content.tag = "Resolution"
        THEN [c1 EXCEPT !.decision_to_outcome =
                 Put(@, content.decision, content.outcome)]
        ELSE IF content.tag = "Market"
        THEN TryIn(c1, Shape(s1, content.decisions, 1, <<>>), LAMBDA shape :
                 [c1 EXCEPT !.s = CreateMarket(s1, outpoint, content, shape)])
        ELSE c1

RECURSIVE ConnectOutputs(_, _, _)
ConnectOutputs(c, transaction, i) ==
    IF ~IsOk(c.res) \/ i > Len(transaction.outputs)
    THEN c
    ELSE ConnectOutputs(
             ConnectOutput(c, OutPoint(transaction.txid, i - 1), transaction.outputs[i]),
             transaction, i + 1)

\* The deltas of one transaction added to those of the body (lib.rs 329-336).
RECURSIVE AddDeltas(_, _, _, _)
AddDeltas(c, market_to_delta, keys, i) ==
    IF ~IsOk(c.res) \/ i > Len(keys)
    THEN c
    ELSE LET market == keys[i]
             delta == market_to_delta[market]
             body_delta == IF market \in DOMAIN c.body_market_to_delta
                           THEN c.body_market_to_delta[market]
                           ELSE Zeros(Len(delta))
         IN  IF Len(body_delta) # Len(delta)
             THEN Failed(c, Panic("dimension mismatch"))
             ELSE AddDeltas([c EXCEPT !.body_market_to_delta =
                                Put(@, market, VecAdd(body_delta, delta))],
                            market_to_delta, keys, i + 1)

\* The first input of a transaction is deleted from utxos and the thread panics
\* (lib.rs 271-274).
ConnectInputs(c, transaction) ==
    IF transaction.inputs = <<>>
    THEN c
    ELSE [c EXCEPT !.s.utxos = Delete(@, transaction.inputs[1]),
                   !.res = Panic("this is incorrect! Delete data from other dbs as well.")]

\* The deltas of a transaction whose outputs are in (lib.rs 329-336).
ConnectDeltas(c, transaction, hash_order) ==
    IF ~IsOk(c.res) THEN c
    ELSE TryIn(c, fill_transaction(c.s, transaction), LAMBDA filled :
             TryIn(c, get_deltas_and_values(c.s, filled), LAMBDA dv :
                 AddDeltas(c, dv.market_to_delta,
                           Visit(hash_order, dv.market_to_delta), 1)))

ConnectTransaction(c, transaction, hash_order) ==
    ConnectDeltas(ConnectOutputs(ConnectInputs(c, transaction), transaction, 1),
                  transaction, hash_order)

RECURSIVE ConnectTransactions(_, _, _, _)
ConnectTransactions(c, transactions, t, hash_order) ==
    IF ~IsOk(c.res) \/ t > Len(transactions)
    THEN c
    ELSE ConnectTransactions(ConnectTransaction(c, transactions[t], hash_order),
                             transactions, t + 1, hash_order)

\* vectors[market] += delta for every market of the body (lib.rs 338-347).
RECURSIVE ApplyDeltas(_, _, _)
ApplyDeltas(c, keys, i) ==
    IF ~IsOk(c.res) \/ i > Len(keys)
    THEN c
    ELSE LET market == keys[i]
             delta == c.body_market_to_delta[market]
         IN  IF market \notin DOMAIN c.s.vectors
             THEN Failed(c, Err("NoUtxo", market))
             ELSE IF Len(c.s.vectors[market]) # Len(delta)
             THEN Failed(c, Panic("dimension mismatch"))
             ELSE ApplyDeltas([c EXCEPT !.s.vectors =
                                  Put(@, market, VecAdd(@[market], delta))],
                              keys, i + 1)

\* The keys of a database in the order its iterator yields them.
KeyBefore(a, b) == a[1] < b[1] \/ (a[1] = b[1] /\ a[2] <= b[2])

RECURSIVE KeyOrder(_)
KeyOrder(keys) ==
    IF keys = {} THEN <<>>
    ELSE LET first == CHOOSE a \in keys : \A b \in keys : KeyBefore(a, b)
         IN  <<first>> \o KeyOrder(keys \ {first})

\* The outcomes a market takes from the resolutions of this block (lib.rs 357-360).
Outcomes(market, decision_to_outcome) ==
    [k \in 1..Len(market.decisions) |->
        IF market.decisions[k] \in DOMAIN decision_to_outcome
        THEN Some(decision_to_outcome[market.decisions[k]])
        ELSE None]

AllSome(outcomes) == \A k \in 1..Len(outcomes) : outcomes[k].some

Unwrap(outcomes) == [k \in 1..Len(outcomes) |-> outcomes[k].v]

\* The resolution that pays the winners and leaves the other positions alone.
ResolvePositionKeepingLosers(s, position_outpoint, outcomes) ==
    LET position == s.utxos[position_outpoint]
    IN  IF position.content.share = outcomes
        THEN [s EXCEPT !.utxos =
                 Put(@, position_outpoint,
                     [position EXCEPT !.content = Value(position.content.value)])]
        ELSE s

\* One listed position of a resolved market (lib.rs 375-400): paid as a Value if
\* its share is the outcome, deleted otherwise.
ResolvePosition(s, position_outpoint, outcomes) ==
    LET position == s.utxos[position_outpoint]
    IN  IF position.content.share = outcomes
        THEN [s EXCEPT !.utxos =
                 Put(@, position_outpoint,
                     [position EXCEPT !.content = Value(position.content.value)])]
        ELSE [s EXCEPT !.utxos = Delete(@, position_outpoint)]

RECURSIVE ResolvePositions(_, _, _, _, _)
ResolvePositions(c, market, outcomes, resolved_positions, i) ==
    IF ~IsOk(c.res) \/ i > Len(resolved_positions)
    THEN c
    ELSE LET position_outpoint == resolved_positions[i]
         IN  IF position_outpoint \notin DOMAIN c.s.utxos
             THEN Failed(c, Err("NoUtxo", market))
             ELSE IF c.s.utxos[position_outpoint].content.tag # "Position"
             THEN Failed(c, Panic("unreachable"))
             ELSE ResolvePositions(
                      [c EXCEPT !.s = ResolvePosition(@, position_outpoint, outcomes)],
                      market, outcomes, resolved_positions, i + 1)

\* The resolved markets, in key order (lib.rs 367-402).  read is the markets
\* table as the iteration of lib.rs 355 saw it; nothing writes to markets
\* between that iteration and lib.rs 403.
RECURSIVE ResolveMarkets(_, _, _, _)
ResolveMarkets(c, read, keys, i) ==
    IF ~IsOk(c.res) \/ i > Len(keys)
    THEN c
    ELSE LET outpoint == keys[i]
             outcomes == Outcomes(read[outpoint], c.decision_to_outcome)
         IN  IF ~AllSome(outcomes)
             THEN ResolveMarkets(c, read, keys, i + 1)
             ELSE IF outpoint \notin DOMAIN c.s.market_to_positions
             THEN Failed(c, Err("NoUtxo", outpoint))
             ELSE ResolveMarkets(
                      ResolvePositions(c, outpoint, Unwrap(outcomes),
                                       c.s.market_to_positions[outpoint], 1),
                      read, keys, i + 1)

\* Every market is written back with this block's outcomes (lib.rs 365, 403-405).
UpdateMarkets(c, read) ==
    IF ~IsOk(c.res)
    THEN c
    ELSE [c EXCEPT !.s.markets =
             [m \in DOMAIN read |->
                 [read[m] EXCEPT !.outcomes = Outcomes(read[m], c.decision_to_outcome)]]]

\* connect_body on the tables s: the result and the tables as the write
\* transaction holds them when the call ends.
ApplyBodyDeltas(c, hash_order) ==
    ApplyDeltas(c, Visit(hash_order, c.body_market_to_delta), 1)

ResolveAndUpdate(c) ==
    UpdateMarkets(ResolveMarkets(c, c.s.markets, KeyOrder(DOMAIN c.s.markets), 1),
                  c.s.markets)

Ended(c) == [res |-> c.res, txn |-> c.s]

connect_body(s, body, hash_order) ==
    Ended(ResolveAndUpdate(ApplyBodyDeltas(
        ConnectTransactions(Run(s, EmptyTable, EmptyTable, Ok(0)),
                            body.transactions, 1, hash_order),
        hash_order)))

\* A caller that commits the write transaction whatever connect_body returned.
CommitAlways(s, run) == run.txn

\* The write transaction of a connected block is committed when connect_body
\* returns Ok and dropped, which aborts it, when it returns an error or panics.
Commit(s, run) == IF IsOk(run.res) THEN run.txn ELSE s

----------------------------------------------------------------------------
\* The transactions blocks are built from.  A txid names one content, as a hash
\* does; the outpoints below are the outputs of these transactions.

c0 == OutPoint(1, 0)
c1 == OutPoint(1, 1)
d0 == OutPoint(2, 0)
d1 == OutPoint(2, 1)
mA == OutPoint(3, 0)
mB == OutPoint(3, 1)
r0 == OutPoint(4, 0)
p0 == OutPoint(5, 0)
p1 == OutPoint(5, 1)

TxCoin == Transaction(1, <<>>, <<Output("alice", Value(2)), Output("bob", Value(1))>>)

TxDecide ==
    Transaction(2, <<>>, <<Output("oracle", Decision(2, 1)), Output("oracle", Decision(3, 1))>>)

TxMarkets ==
    Transaction(3, <<>>, <<Output("maker", MarketContent(2, <<d0>>)),
                           Output("maker", MarketContent(1, <<d0, d1>>))>>)

TxResolve0 == Transaction(4, <<>>, <<Output("oracle", Resolution(d0, 0))>>)

TxBuy ==
    Transaction(5, <<>>, <<Output("alice", Position(mA, <<0>>, 2)),
                           Output("bob", Position(mA, <<1>>, 1))>>)

TxPay ==
    Transaction(6, <<c0>>, <<Output("bob", Value(1)),
                             Output("maker", MarketContent(2, <<d0>>))>>)

TxPayTwo == Transaction(7, <<c0, c1>>, <<Output("bob", Value(1))>>)

TxOverdraw == Transaction(8, <<c1>>, <<Output("alice", Value(2))>>)

TxTwice == Transaction(9, <<c1, c1>>, <<>>)

TxDecisionOut == Transaction(10, <<d0>>, <<Output("oracle", Resolution(d0, 1))>>)

TxDecisionIn == Transaction(11, <<d0, r0>>, <<>>)

TxBuyPaid == Transaction(12, <<c0>>, <<Output("alice", Position(mA, <<0>>, 2))>>)

TxSell == Transaction(13, <<p0>>, <<Output("alice", Value(1))>>)

TxSpendMarket == Transaction(14, <<mA>>, <<>>)

\* Positions on the market of shape <<2, 3>> whose shares are too short and out
\* of range.
TxBuyMalformed ==
    Transaction(15, <<c0>>, <<Output("alice", Position(mB, <<1>>, 1)),
                              Output("alice", Position(mB, <<0, 3>>, 1))>>)

\* A resolution of the decision of size 2 to an outcome it does not have.
TxResolveWild == Transaction(16, <<>>, <<Output("oracle", Resolution(d0, 5))>>)

\* A position sold and bought back in one transaction.
TxRoll == Transaction(17, <<p0>>, <<Output("alice", Position(mA, <<0>>, 2))>>)

Transactions ==
    {TxCoin, TxDecide, TxMarkets, TxResolve0, TxBuy, TxPay, TxPayTwo, TxOverdraw,
     TxTwice, TxDecisionOut, TxDecisionIn, TxBuyPaid, TxSell, TxSpendMarket,
     TxBuyMalformed, TxResolveWild, TxRoll}

SeqsUpTo(S, n) == UNION {[1..k -> S] : k \in 0..n}

\* Every coinbase output pays the same amount.
CoinbaseOutput == Output("miner", Value(3))

Bodies ==
    {Body(transactions, coinbase) :
        transactions \in SeqsUpTo(Transactions, MaxBodyTxs),
        coinbase \in SeqsUpTo({CoinbaseOutput}, MaxCoinbase)}

Heights == 0..MaxHeight

\* The markets the positions of a list of transactions name: those of their
\* Position outputs and of the Positions they spend.
PositionMarkets(outputs) ==
    {outputs[k].content.market :
        k \in {j \in DOMAIN outputs : outputs[j].content.tag = "Position"}}

Touched(s, transactions) ==
    UNION {PositionMarkets(transactions[t].outputs)
           \cup PositionMarkets([k \in {j \in DOMAIN transactions[t].inputs :
                                          transactions[t].inputs[j] \in DOMAIN s.utxos} |->
                                   s.utxos[transactions[t].inputs[k]]])
           : t \in DOMAIN transactions}

\* The orders a HashMap keyed by the markets in S may be walked in.
HashOrders(S) ==
    {order \in [1..Cardinality(S) -> S] :
        \A i, j \in 1..Cardinality(S) : i # j => order[i] # order[j]}

----------------------------------------------------------------------------
\* The state machine.  The variables utxos, vectors, markets and
\* market_to_positions are the committed databases.  A call is made when no
\* call is open and leaves its result in last.  connect_body writes into the
\* write transaction it is handed (last.txn); EndBlock ends that transaction.

NoTransaction == Transaction(0, <<>>, <<>>)

NoBody == Body(<<>>, <<>>)

Call(op, transaction, body, height, res, txn) ==
    [op |-> op, transaction |-> transaction, body |-> body, height |-> height,
     res |-> res, txn |-> txn]

Idle == Call("new", NoTransaction, NoBody, 0, Ok(0), EmptyStore)

Ready == last.op = "new"

\* State::new on a fresh environment: four empty databases.
Init ==
    /\ utxos = EmptyTable
    /\ vectors = EmptyTable
    /\ markets = EmptyTable
    /\ market_to_positions = EmptyTable
    /\ last = Idle
    /\ blocks = 0

\* An environment that already holds coins, two decisions and the two markets
\* over them, each market with its record, a zero vector and an empty list of
\* positions.
SeededStore ==
    Store(
        [o \in {c0, c1, d0, d1, mA, mB} |->
            IF o[1] = 1 THEN TxCoin.outputs[o[2] + 1]
            ELSE IF o[1] = 2 THEN TxDecide.outputs[o[2] + 1]
            ELSE TxMarkets.outputs[o[2] + 1]],
        [o \in {mA, mB} |-> IF o = mA THEN Zeros(2) ELSE Zeros(6)],
        [o \in {mA, mB} |->
            IF o = mA THEN Market(2, <<2>>, <<d0>>, <<None>>)
            ELSE Market(1, <<2, 3>>, <<d0, d1>>, <<None, None>>)],
        [o \in {mA, mB} |-> <<>>])

\* State::new on that environment.
InitSeeded ==
    /\ utxos = SeededStore.utxos
    /\ vectors = SeededStore.vectors
    /\ markets = SeededStore.markets
    /\ market_to_positions = SeededStore.market_to_positions
    /\ last = Idle
    /\ blocks = 0

Unchanged == UNCHANGED <<utxos, vectors, markets, market_to_positions, blocks>>

FillTransaction ==
    /\ Ready
    /\ \E transaction \in Transactions :
          last' = Call("fill_transaction", transaction, NoBody, 0,
                       fill_transaction(Current, transaction), EmptyStore)
    /\ Unchanged

\* validate_transaction on what fill_transaction returned for the transaction.
ValidateTransaction ==
    /\ Ready
    /\ \E transaction \in Transactions, height \in Heights :
          \E hash_order \in HashOrders(Touched(Current, <<transaction>>)) :
             LET filled == fill_transaction(Current, transaction)
             IN  /\ IsOk(filled)
                 /\ last' = Call("validate_transaction", transaction, NoBody, height,
                                 validate_transaction(Current, filled.val, height,
                                                      hash_order),
                                 EmptyStore)
    /\ Unchanged

ValidateBody ==
    /\ Ready
    /\ \E body \in Bodies :
          \E hash_order \in HashOrders(Touched(Current, body.transactions)) :
             last' = Call("validate_body", NoTransaction, body, 0,
                          validate_body(Current, body, hash_order), EmptyStore)
    /\ Unchanged

Connected(body, run) == Call("connect_body", NoTransaction, body, 0, run.res, run.txn)

\* connect_body under a write transaction opened on the committed databases.
ConnectBody ==
    /\ Ready
    /\ \E body \in Bodies :
          \E hash_order \in HashOrders(Touched(Current, body.transactions)) :
             last' = Connected(body, connect_body(Current, body, hash_order))
    /\ Unchanged

\* The write transaction ends: committed after Ok, dropped otherwise.
EndBlock ==
    /\ last.op = "connect_body"
    /\ IsOk(last.res) => blocks < MaxBlocks
    /\ LET after == Commit(Current, last)
       IN  /\ utxos' = after.utxos
           /\ vectors' = after.vectors
           /\ markets' = after.markets
           /\ market_to_positions' = after.market_to_positions
    /\ blocks' = IF IsOk(last.res) THEN blocks + 1 ELSE blocks
    /\ last' = Idle

\* A read-only call returns.
Return ==
    /\ last.op \in {"fill_transaction", "validate_transaction", "validate_body",
                   "share_to_flat_index"}
    /\ last' = Idle
    /\ Unchanged

Next ==
    \/ FillTransaction
    \/ ValidateTransaction
    \/ ValidateBody
    \/ ConnectBody
    \/ EndBlock
    \/ Return

Spec == Init /\ [][Next]_vars

SpecSeeded == InitSeeded /\ [][Next]_vars

----------------------------------------------------------------------------
\* share_to_flat_index on its own: one market of any small shape, and the
\* function applied to the shares of Position outputs, well formed or not.

MaxDims == 2
MaxSide == 3

Shapes == SeqsUpTo(0..MaxSide, MaxDims)

Shares == SeqsUpTo(0..MaxSide, MaxDims)

\* The store after a block that creates the decisions of a shape and a block
\* that creates the market mA over them (lib.rs 276-325).
ShapedStore(shape) ==
    Store(
        [o \in {OutPoint(2, i - 1) : i \in DOMAIN shape} \cup {mA} |->
            IF o = mA
            THEN Output("maker",
                        MarketContent(1, [i \in DOMAIN shape |-> OutPoint(2, i - 1)]))
            ELSE Output("oracle", Decision(shape[o[2] + 1], 1))],
        EmptyTable,
        [o \in {mA} |->
            Market(1, shape, [i \in DOMAIN shape |-> OutPoint(2, i - 1)],
                   [i \in DOMAIN shape |-> None])],
        EmptyTable)

InitIndex ==
    \E shape \in Shapes :
        /\ utxos = ShapedStore(shape).utxos
        /\ vectors = ShapedStore(shape).vectors
        /\ markets = ShapedStore(shape).markets
        /\ market_to_positions = ShapedStore(shape).market_to_positions
        /\ last = Idle
        /\ blocks = 0

\* share_to_flat_index for the Position of an output, as get_deltas_and_values
\* calls it (lib.rs 92-96).
ShareToFlatIndex ==
    /\ Ready
    /\ \E market \in {mA, mB}, share \in Shares :
          last' = Call("share_to_flat_index",
                       Transaction(0, <<>>, <<Output("alice", Position(market, share, 1))>>),
                       NoBody, 0, share_to_flat_index(Current, market, share),
                       EmptyStore)
    /\ Unchanged

NextIndex ==
    \/ ShareToFlatIndex
    \/ Return

SpecIndex == InitIndex /\ [][NextIndex]_vars

----------------------------------------------------------------------------
\* What the claims speak of, stated apart from the walks above.

\* The inputs of a body, each with its place <<transaction, input>>.
InputPlaces(body) ==
    UNION {{<<t, i>> : i \in DOMAIN body.transactions[t].inputs} :
              t \in DOMAIN body.transactions}

InputAt(body, place) == body.transactions[place[1]].inputs[place[2]]

\* The outpoints that are an input of a body at more than one place, and those
\* that are an input of two of its transactions.
Duplicated(body) ==
    {InputAt(body, a) :
        a \in {x \in InputPlaces(body) :
                  \E y \in InputPlaces(body) :
                     y # x /\ InputAt(body, y) = InputAt(body, x)}}

SharedByTwo(body) ==
    {InputAt(body, a) :
        a \in {x \in InputPlaces(body) :
                  \E y \in InputPlaces(body) :
                     y[1] # x[1] /\ InputAt(body, y) = InputAt(body, x)}}

\* A transaction that validate_transaction accepts at height 0 on the tables s.
TxValid(s, transaction) ==
    LET filled == fill_transaction(s, transaction)
    IN  /\ IsOk(filled)
        /\ \A hash_order \in HashOrders(Touched(s, <<transaction>>)) :
              IsOk(validate_transaction(s, filled.val, 0, hash_order))

AllValid(s, body) ==
    \A t \in DOMAIN body.transactions : TxValid(s, body.transactions[t])

\* C1: validate_body never returns Ok for a body in which an outpoint is an
\* input more than once, and when two transactions that are valid on their own
\* share an input it returns UtxoDoubleSpent naming a doubly spent outpoint.
C1_NoDoubleSpend ==
    last.op = "validate_body" =>
        /\ Duplicated(last.body) # {} => ~IsOk(last.res)
        /\ (SharedByTwo(last.body) # {} /\ AllValid(Current, last.body)) =>
              /\ IsErr(last.res, "UtxoDoubleSpent")
              /\ last.res.at \in Duplicated(last.body)

C1_Witness ==
    /\ last.op = "validate_body"
    /\ SharedByTwo(last.body) # {}
    /\ AllValid(Current, last.body)
    /\ IsErr(last.res, "UtxoDoubleSpent")

----------------------------------------------------------------------------
\* The sums of the value rule, computed from the transaction and the tables.

FaceValue(content) == IF content.tag = "Value" THEN content.value ELSE 0

\* The decisions of a Market output are Decision utxos.
DecisionsKnown(s, content) ==
    \A k \in DOMAIN content.decisions :
        /\ content.decisions[k] \in DOMAIN s.utxos
        /\ s.utxos[content.decisions[k]].content.tag = "Decision"

\* Funding charge of a Market output: floor(b * ln(product of the sizes)).
FundingCharge(s, content) ==
    (content.b
        * LnMicro(Product([k \in DOMAIN content.decisions |->
                              s.utxos[content.decisions[k]].content.size])))
    \div 1000000

SpentContents(s, transaction) ==
    [k \in DOMAIN transaction.inputs |-> s.utxos[transaction.inputs[k]].content]

OutputContents(transaction) ==
    [k \in DOMAIN transaction.outputs |-> transaction.outputs[k].content]

InputValueOf(s, transaction) ==
    SumSeq([k \in DOMAIN transaction.inputs |->
               FaceValue(SpentContents(s, transaction)[k])])

OutputValueOf(s, transaction) ==
    SumSeq([k \in DOMAIN transaction.outputs |->
               LET content == transaction.outputs[k].content
               IN  IF content.tag = "Market" THEN FundingCharge(s, content)
                   ELSE FaceValue(content)])

\* Row-major index of a share: sum_i share[i] * product_{j > i} shape[j].
RowMajor(share, shape) ==
    SumSeq([i \in DOMAIN shape |->
               share[i] * Product(SubSeq(shape, i + 1, Len(shape)))])

WellFormedShare(share, shape) ==
    /\ Len(share) = Len(shape)
    /\ \A i \in DOMAIN shape : share[i] < shape[i]

\* Value of the positions among contents that sit on market at flat index k.
PositionsAt(s, contents, market, k) ==
    SumSeq([j \in DOMAIN contents |->
               IF /\ contents[j].tag = "Position"
                  /\ contents[j].market = market
                  /\ RowMajor(contents[j].share, s.markets[market].shape) = k
               THEN contents[j].value ELSE 0])

DeltaOf(s, transaction, market) ==
    [k \in 1..Product(s.markets[market].shape) |->
        PositionsAt(s, OutputContents(transaction), market, k - 1)
            - PositionsAt(s, SpentContents(s, transaction), market, k - 1)]

MarketCostOf(s, transaction, market) ==
    lmsr_cost(s.utxos[market].content.b,
              VecAdd(s.vectors[market], DeltaOf(s, transaction, market)))
        - lmsr_cost(s.utxos[market].content.b, s.vectors[market])

RECURSIVE TotalCostOf(_, _, _)
TotalCostOf(s, transaction, S) ==
    IF S = {} THEN 0
    ELSE LET market == CHOOSE m \in S : TRUE
         IN  MarketCostOf(s, transaction, market)
                + TotalCostOf(s, transaction, S \ {market})

CostOf(s, transaction) == TotalCostOf(s, transaction, Touched(s, <<transaction>>))

\* The sums above are defined: the inputs exist, every Market output names
\* Decision utxos, and every position sits in range on a market that has its
\* record, its vector and its Market utxo.
SumsDefined(s, transaction) ==
    /\ \A k \in DOMAIN transaction.inputs : transaction.inputs[k] \in DOMAIN s.utxos
    /\ \A k \in DOMAIN transaction.outputs :
          transaction.outputs[k].content.tag = "Market" =>
              DecisionsKnown(s, transaction.outputs[k].content)
    /\ \A market \in Touched(s, <<transaction>>) :
          /\ market \in DOMAIN s.markets
          /\ market \in DOMAIN s.vectors
          /\ market \in DOMAIN s.utxos
          /\ s.utxos[market].content.tag = "Market"
          /\ Len(s.vectors[market]) = Product(s.markets[market].shape)
    /\ \A content \in {SpentContents(s, transaction)[k] : k \in DOMAIN transaction.inputs}
                      \cup {OutputContents(transaction)[k] : k \in DOMAIN transaction.outputs} :
          content.tag = "Position" =>
              WellFormedShare(content.share, s.markets[content.market].shape)

ValueConserved(s, transaction) ==
    CostOf(s, transaction) + FromU64(OutputValueOf(s, transaction))
        <= FromU64(InputValueOf(s, transaction))

\* The scan of the decision lifecycle lets the transaction through.
LifecyclePasses(s, transaction, height) ==
    LET filled == fill_transaction(s, transaction)
        scan == Lifecycle(s, filled.val, height, 1, {}, <<>>)
    IN  IsOk(filled) /\ IsOk(scan) /\ Resolved(scan.val)

\* C2: validate_transaction returns Ok only if cost + output_value <=
\* input_value, and returns NotEnoughValueIn when the lifecycle checks pass and
\* the inequality fails.
C2_ValueConservation ==
    (last.op = "validate_transaction" /\ SumsDefined(Current, last.transaction)) =>
        /\ IsOk(last.res) => ValueConserved(Current, last.transaction)
        /\ (/\ LifecyclePasses(Current, last.transaction, last.height)
            /\ ~ValueConserved(Current, last.transaction)) =>
              IsErr(last.res, "NotEnoughValueIn")

C2_Witness ==
    /\ last.op = "validate_transaction"
    /\ SumsDefined(Current, last.transaction)
    /\ IsOk(last.res)
    /\ CostOf(Current, last.transaction) > 0
    /\ OutputValueOf(Current, last.transaction) = 0

----------------------------------------------------------------------------
\* The decision lifecycle as the claims state it.

\* The inputs of a transaction that are Decision utxos.
SpentDecisions(s, transaction) ==
    {transaction.inputs[k] :
        k \in {j \in DOMAIN transaction.inputs :
                  SpentContents(s, transaction)[j].tag = "Decision"}}

ResolvableHeight(s, decision) == s.utxos[decision].content.resolvable_height

\* The transaction emits a Resolution of the decision among its outputs.
EmitsResolution(transaction, decision) ==
    \E k \in DOMAIN transaction.outputs :
        /\ transaction.outputs[k].content.tag = "Resolution"
        /\ transaction.outputs[k].content.decision = decision

SpendsNoMarket(s, transaction) ==
    \A k \in DOMAIN transaction.inputs :
        SpentContents(s, transaction)[k].tag # "Market"

\* C3: validate_transaction returns DecisionSpentEarly when the transaction
\* spends a Decision whose resolvable_height is greater than the height, and
\* never when every Decision it spends has height >= resolvable_height.
C3_SpentEarly ==
    last.op = "validate_transaction" =>
        /\ (/\ SpendsNoMarket(Current, last.transaction)
            /\ \E d \in SpentDecisions(Current, last.transaction) :
                  ResolvableHeight(Current, d) > last.height) =>
              IsErr(last.res, "DecisionSpentEarly")
        /\ (\A d \in SpentDecisions(Current, last.transaction) :
               last.height >= ResolvableHeight(Current, d)) =>
              ~IsErr(last.res, "DecisionSpentEarly")

\* C4: a transaction spending a Decision at or after its resolvable_height is
\* accepted only if it emits a Resolution of that decision among its outputs;
\* without one it fails with DecisionSpentWithoutResolution, and with one (and
\* otherwise valid) it is accepted.
C4_ResolutionEmitted ==
    (/\ last.op = "validate_transaction"
     /\ SpentDecisions(Current, last.transaction) # {}
     /\ \A d \in SpentDecisions(Current, last.transaction) :
           last.height >= ResolvableHeight(Current, d)) =>
        /\ IsOk(last.res) =>
              \A d \in SpentDecisions(Current, last.transaction) :
                 EmitsResolution(last.transaction, d)
        /\ (/\ SpendsNoMarket(Current, last.transaction)
            /\ \E d \in SpentDecisions(Current, last.transaction) :
                  ~EmitsResolution(last.transaction, d)) =>
              IsErr(last.res, "DecisionSpentWithoutResolution")
        /\ (/\ \A d \in SpentDecisions(Current, last.transaction) :
                  EmitsResolution(last.transaction, d)
            /\ SpendsNoMarket(Current, last.transaction)
            /\ SumsDefined(Current, last.transaction)
            /\ ValueConserved(Current, last.transaction)
            /\ CostOf(Current, last.transaction) >= 0) =>
              IsOk(last.res)

----------------------------------------------------------------------------
\* Fees.

\* The fee validate_transaction returns for a transaction of a body (height 0).
FeeOf(s, transaction) ==
    validate_transaction(s, fill_transaction(s, transaction).val, 0,
                         CHOOSE order \in HashOrders(Touched(s, <<transaction>>)) : TRUE).val

FeeSum(s, body) ==
    SumSeq([t \in DOMAIN body.transactions |-> FeeOf(s, body.transactions[t])])

CoinbaseSum(body) ==
    SumSeq([k \in DOMAIN body.coinbase |-> FaceValue(body.coinbase[k].content)])

\* C5: validate_body returns Ok only if the coinbase sum is at most the sum of
\* the fees of the body's transactions, and returns NotEnoughFeeValue when every
\* transaction is valid and the coinbase sum exceeds that sum.
C5_CoinbaseCap ==
    (/\ last.op = "validate_body"
     /\ AllValid(Current, last.body)
     /\ Duplicated(last.body) = {}) =>
        /\ IsOk(last.res) => CoinbaseSum(last.body) <= FeeSum(Current, last.body)
        /\ CoinbaseSum(last.body) > FeeSum(Current, last.body) =>
              IsErr(last.res, "NotEnoughFeeValue")

\* C6: the fee validate_transaction returns is input_value - cost -
\* output_value, so it never exceeds input_value - output_value when cost >= 0.
C6_Fee ==
    (/\ last.op = "validate_transaction"
     /\ IsOk(last.res)
     /\ SumsDefined(Current, last.transaction)) =>
        /\ last.res.val = InputValueOf(Current, last.transaction)
                            - ToU64(CostOf(Current, last.transaction)).v
                            - OutputValueOf(Current, last.transaction)
        /\ CostOf(Current, last.transaction) >= 0 =>
              last.res.val <= InputValueOf(Current, last.transaction)
                                - OutputValueOf(Current, last.transaction)

----------------------------------------------------------------------------
\* The connector.

Tables == <<utxos, vectors, markets, market_to_positions>>

\* C7: after a connect_body that failed part-way (an error or a panic), the
\* committed tables are what they were before the call.
C7_Atomic ==
    [][(last.op = "connect_body" /\ ~IsOk(last.res)) => Tables' = Tables]_vars

\* A failed connect_body that had inserted an output before it failed.
C7_Witness ==
    /\ last.op = "connect_body"
    /\ ~IsOk(last.res)
    /\ DOMAIN last.txn.utxos \ DOMAIN utxos # {}

IsPositionOf(s, outpoint, market) ==
    /\ outpoint \in DOMAIN s.utxos
    /\ s.utxos[outpoint].content.tag = "Position"
    /\ s.utxos[outpoint].content.market = market

\* The markets a run of connect_body leaves resolved.
ResolvedMarkets(s) == {m \in DOMAIN s.markets : AllSome(s.markets[m].outcomes)}

\* C8: when connect_body leaves a market resolved with outcomes O, every
\* Position of it that was in utxos is a Value of its value at its address if its
\* share is O and is gone otherwise, and no Position of the market remains.
C8_ResolutionPays ==
    (last.op = "connect_body" /\ IsOk(last.res)) =>
        \A m \in ResolvedMarkets(last.txn) :
            /\ \A o \in DOMAIN utxos :
                  IsPositionOf(Current, o, m) =>
                      IF utxos[o].content.share = Unwrap(last.txn.markets[m].outcomes)
                      THEN /\ o \in DOMAIN last.txn.utxos
                           /\ last.txn.utxos[o] =
                                 Output(utxos[o].address, Value(utxos[o].content.value))
                      ELSE o \notin DOMAIN last.txn.utxos
            /\ \A o \in DOMAIN last.txn.utxos : ~IsPositionOf(last.txn, o, m)

\* A block that resolved a market holding a winning and a losing position.
C8_Witness ==
    /\ last.op = "connect_body"
    /\ IsOk(last.res)
    /\ \E m \in ResolvedMarkets(last.txn) :
          /\ \E o \in DOMAIN utxos :
                /\ IsPositionOf(Current, o, m)
                /\ utxos[o].content.share = Unwrap(last.txn.markets[m].outcomes)
          /\ \E o \in DOMAIN utxos :
                /\ IsPositionOf(Current, o, m)
                /\ utxos[o].content.share # Unwrap(last.txn.markets[m].outcomes)

\* The list of positions of a market; a market without an entry lists none.
Listed(s, market) ==
    IF market \in DOMAIN s.market_to_positions
    THEN s.market_to_positions[market]
    ELSE <<>>

C10_MarketCreated ==
    (last.op = "connect_body" /\ IsOk(last.res)) =>
        \A t \in DOMAIN last.body.transactions :
            \A k \in DOMAIN last.body.transactions[t].outputs :
                LET content == last.body.transactions[t].outputs[k].content
                    m == OutPoint(last.body.transactions[t].txid, k - 1)
                    shape == [j \in DOMAIN content.decisions |->
                                 last.txn.utxos[content.decisions[j]].content.size]
                IN  (content.tag = "Market" /\ DecisionsKnown(last.txn, content)) =>
                        /\ m \in DOMAIN last.txn.markets
                        /\ last.txn.markets[m] =
                              Market(content.b, shape, content.decisions,
                                     [j \in DOMAIN shape |-> None])
                        /\ m \in DOMAIN last.txn.vectors
                        /\ last.txn.vectors[m] = Zeros(Product(shape))
                        /\ m \in DOMAIN last.txn.market_to_positions
                        /\ last.txn.market_to_positions[m] = <<>>

----------------------------------------------------------------------------
\* The outcomes of a market from block to block.

----------------------------------------------------------------------------
\* The shape of positions.

PositionOutputs(transaction) ==
    {OutputContents(transaction)[k] :
        k \in {j \in DOMAIN transaction.outputs :
                  transaction.outputs[j].content.tag = "Position"}}

----------------------------------------------------------------------------
\* The vector of a market against the positions held on it.

RECURSIVE ValueSum(_, _)
ValueSum(s, outpoints) ==
    IF outpoints = {} THEN 0
    ELSE LET o == CHOOSE x \in outpoints : TRUE
         IN  s.utxos[o].content.value + ValueSum(s, outpoints \ {o})

\* The value of the Position utxos of a market whose share is at flat index k.
HeldAt(s, market, k) ==
    ValueSum(s, {o \in DOMAIN s.utxos :
                    /\ IsPositionOf(s, o, market)
                    /\ RowMajor(s.utxos[o].content.share, s.markets[market].shape) = k})

\* C13: after a successful connect_body every market in markets has a vector
\* of length product(shape) whose entry at each flat index k is the sum of the
\* values of the Position utxos of the market whose share maps to k.
C13_VectorIsSum ==
    (last.op = "connect_body" /\ IsOk(last.res)) =>
        \A m \in DOMAIN last.txn.markets :
            /\ m \in DOMAIN last.txn.vectors
            /\ Len(last.txn.vectors[m]) = Product(last.txn.markets[m].shape)
            /\ \A k \in DOMAIN last.txn.vectors[m] :
                  last.txn.vectors[m][k] = HeldAt(last.txn, m, k - 1)

----------------------------------------------------------------------------
\* Markets on decisions that are already resolvable.

\* The Market contents a transaction consumes and those it creates.
MarketsSpent(s, transaction) ==
    {SpentContents(s, transaction)[k] :
        k \in {j \in DOMAIN transaction.inputs :
                  SpentContents(s, transaction)[j].tag = "Market"}}

MarketsCreated(transaction) ==
    {OutputContents(transaction)[k] :
        k \in {j \in DOMAIN transaction.outputs :
                  transaction.outputs[j].content.tag = "Market"}}

\* The market names a Decision utxo whose resolvable_height is below height.
UsesResolvable(s, content, height) ==
    \E k \in DOMAIN content.decisions :
        /\ content.decisions[k] \in DOMAIN s.utxos
        /\ s.utxos[content.decisions[k]].content.tag = "Decision"
        /\ height > s.utxos[content.decisions[k]].content.resolvable_height

\* C14: validate_transaction returns MarketUsingResolvableDecision when the
\* transaction spends a Market utxo or creates a Market output that names a
\* Decision with height > resolvable_height (stated for transactions that spend
\* no Decision and conserve value, which no other check stops first).
C14_ResolvableDecision ==
    (/\ last.op = "validate_transaction"
     /\ SpentDecisions(Current, last.transaction) = {}
     /\ \A content \in MarketsSpent(Current, last.transaction)
                       \cup MarketsCreated(last.transaction) :
           DecisionsKnown(Current, content)
     /\ SumsDefined(Current, last.transaction)
     /\ ValueConserved(Current, last.transaction)
     /\ \E content \in MarketsSpent(Current, last.transaction)
                       \cup MarketsCreated(last.transaction) :
           UsesResolvable(Current, content, last.height)) =>
        IsErr(last.res, "MarketUsingResolvableDecision")

----------------------------------------------------------------------------
\* fill_transaction.

\* The places of the inputs of a transaction that are not in utxos.
Missing(s, transaction) ==
    {k \in DOMAIN transaction.inputs : transaction.inputs[k] \notin DOMAIN s.utxos}

FirstMissing(s, transaction) ==
    CHOOSE k \in Missing(s, transaction) : \A j \in Missing(s, transaction) : k <= j

\* What the claim says fill_transaction returns.
Filled(s, transaction) ==
    IF Missing(s, transaction) # {}
    THEN Err("NoUtxo", transaction.inputs[FirstMissing(s, transaction)])
    ELSE Ok([spent_utxos |-> [k \in DOMAIN transaction.inputs |->
                                 s.utxos[transaction.inputs[k]]],
             transaction |-> transaction])

\* C15: fill_transaction fails with NoUtxo naming the first input absent from
\* utxos; otherwise it returns the transaction with the utxos of its inputs, in
\* the order of the inputs; the call changes no table.
C15_Fill ==
    /\ [](last.op = "fill_transaction" => last.res = Filled(Current, last.transaction))
    /\ [][last'.op = "fill_transaction" => Tables' = Tables]_vars

\* A fill that found its first input and failed on the second.
C15_Witness ==
    /\ last.op = "fill_transaction"
    /\ Len(last.transaction.inputs) = 2
    /\ last.transaction.inputs[1] \in DOMAIN utxos
    /\ last.res = Err("NoUtxo", last.transaction.inputs[2])

----------------------------------------------------------------------------
\* Resolution outputs.

ResolutionOutputs(transaction) ==
    {transaction.outputs[k].content : k \in
        {j \in DOMAIN transaction.outputs :
            transaction.outputs[j].content.tag = "Resolution"}}

\* C16: an accepted transaction's Resolution outputs each name an outcome below
\* the size of the Decision they resolve.
C16_OutcomeInRange ==
    (last.op = "validate_transaction" /\ IsOk(last.res)) =>
        \A content \in ResolutionOutputs(last.transaction) :
            (content.decision \in DOMAIN utxos
             /\ utxos[content.decision].content.tag = "Decision") =>
                content.outcome < utxos[content.decision].content.size

----------------------------------------------------------------------------
\* Self-cancelling trades.

PositionInputs(s, transaction) ==
    {i \in DOMAIN transaction.inputs :
        s.utxos[transaction.inputs[i]].content.tag = "Position"}

PositionPlaces(transaction) ==
    {j \in DOMAIN transaction.outputs : transaction.outputs[j].content.tag = "Position"}

\* Every Position the transaction spends is created again, one for one, and it
\* creates no other.
SelfCancelling(s, transaction) ==
    /\ \A i \in DOMAIN transaction.inputs : transaction.inputs[i] \in DOMAIN s.utxos
    /\ PositionInputs(s, transaction) # {}
    /\ \E f \in [PositionInputs(s, transaction) -> PositionPlaces(transaction)] :
          /\ \A j \in PositionPlaces(transaction) :
                \E i \in PositionInputs(s, transaction) : f[i] = j
          /\ \A i, k \in PositionInputs(s, transaction) : f[i] = f[k] => i = k
          /\ \A i \in PositionInputs(s, transaction) :
                transaction.outputs[f[i]].content = s.utxos[transaction.inputs[i]].content

TradedMarkets(transaction) ==
    {transaction.outputs[j].content.market : j \in PositionPlaces(transaction)}

ZeroDeltas(s, transaction) ==
    Try(get_deltas_and_values(s, fill_transaction(s, transaction).val), LAMBDA dv :
        IF \A m \in DOMAIN dv.market_to_delta :
              dv.market_to_delta[m] = Zeros(Len(dv.market_to_delta[m]))
        THEN Ok(0) ELSE Ok(1)) = Ok(0)

ZeroCost(s, transaction) ==
    \A hash_order \in HashOrders(Touched(s, <<transaction>>)) :
        Try(get_deltas_and_values(s, fill_transaction(s, transaction).val), LAMBDA dv :
            get_cost(s, dv.market_to_delta, hash_order)) = Ok(0)

----------------------------------------------------------------------------
\* share_to_flat_index.

\* The coordinates of a shape: one index below the side on every axis.
Coordinates(shape) ==
    {c \in [DOMAIN shape -> 0..MaxSide + 1] : \A i \in DOMAIN shape : c[i] < shape[i]}

AskedMarket == last.transaction.outputs[1].content.market
AskedShare == last.transaction.outputs[1].content.share

\* C18: for a share as long as the shape with every index below its side,
\* share_to_flat_index returns sum_i share[i] * product_{j > i} shape[j]; the
\* coordinates of the shape are mapped one-to-one onto 0 .. product(shape) - 1.
C18_RowMajor ==
    (/\ last.op = "share_to_flat_index"
     /\ AskedMarket \in DOMAIN markets
     /\ WellFormedShare(AskedShare, markets[AskedMarket].shape)) =>
        /\ last.res = Ok(RowMajor(AskedShare, markets[AskedMarket].shape))
        /\ last.res.val \in 0..(Product(markets[AskedMarket].shape) - 1)
        /\ \A c \in Coordinates(markets[AskedMarket].shape) :
              c # AskedShare => share_to_flat_index(Current, AskedMarket, c) # last.res
        /\ \A k \in 0..(Product(markets[AskedMarket].shape) - 1) :
              \E c \in Coordinates(markets[AskedMarket].shape) :
                 share_to_flat_index(Current, AskedMarket, c) = Ok(k)

\* The last coordinate of a 2 x 3 market.
C18_Witness ==
    /\ last.op = "share_to_flat_index"
    /\ AskedMarket \in DOMAIN markets
    /\ markets[AskedMarket].shape = <<2, 3>>
    /\ AskedShare = <<1, 2>>
    /\ last.res = Ok(5)

----------------------------------------------------------------------------
\* validate_body: one validation and one fee per transaction.

\* C19: validate_body accepts a body only if every transaction of it, with or
\* without inputs, is accepted by validate_transaction, and it counts the fee
\* of each transaction once: a body of valid transactions with no outpoint
\* spent twice is accepted exactly when the coinbase sum is at most the sum of
\* the transactions' fees.
C19_ValidatedOnce ==
    last.op = "validate_body" =>
        /\ IsOk(last.res) => AllValid(Current, last.body)
        /\ (AllValid(Current, last.body) /\ Duplicated(last.body) = {}) =>
              (IsOk(last.res) <=> CoinbaseSum(last.body) <= FeeSum(Current, last.body))

----------------------------------------------------------------------------
\* connect_body after validate_body.

\* validate_body accepts the body on the tables s, whatever the hash order.
BodyAccepted(s, body) ==
    \A hash_order \in HashOrders(Touched(s, body.transactions)) :
        IsOk(validate_body(s, body, hash_order))

\* C20: connect_body of a body that validate_body accepts on the same tables
\* returns Ok (stated for bodies whose transactions validate_transaction
\* accepts one by one, so that no transaction passed unvalidated).
C20_ConnectsAfterValidate ==
    (/\ last.op = "connect_body"
     /\ BodyAccepted(Current, last.body)
     /\ AllValid(Current, last.body)) => IsOk(last.res)

----------------------------------------------------------------------------
\* Who may resolve a decision.

\* A transaction of the body spends the Decision utxo and emits its Resolution.
ResolvedBySpender(s, body, decision) ==
    \E t \in DOMAIN body.transactions :
        /\ decision \in SpentDecisions(s, body.transactions[t])
        /\ EmitsResolution(body.transactions[t], decision)

\* The decisions whose outcome a run of connect_body set in some market.
OutcomesSet(run) ==
    UNION {{run.markets[m].decisions[i] :
               i \in {j \in DOMAIN run.markets[m].outcomes :
                         run.markets[m].outcomes[j].some}} :
              m \in DOMAIN run.markets}

\* The markets whose positions a run of connect_body paid out or deleted.
Settled(s, run) ==
    {s.utxos[o].content.market :
        o \in {p \in DOMAIN s.utxos :
                  /\ s.utxos[p].content.tag = "Position"
                  /\ (p \notin DOMAIN run.utxos \/ run.utxos[p] # s.utxos[p])}}

----------------------------------------------------------------------------
\* validate_body and the height.

\* validate_transaction would answer err for a transaction of the body at some
\* height.
RejectedAtSomeHeight(s, body, err) ==
    \E t \in DOMAIN body.transactions, height \in Heights :
        /\ IsOk(fill_transaction(s, body.transactions[t]))
        /\ \A hash_order \in HashOrders(Touched(s, <<body.transactions[t]>>)) :
              IsErr(validate_transaction(s, fill_transaction(s, body.transactions[t]).val,
                                         height, hash_order), err)

\* C22: validate_body never returns DecisionSpentEarly or
\* MarketUsingResolvableDecision.
C22_HeightZero ==
    last.op = "validate_body" =>
        /\ ~IsErr(last.res, "DecisionSpentEarly")
        /\ ~IsErr(last.res, "MarketUsingResolvableDecision")

\* validate_body accepted a body with a transaction that validate_transaction
\* rejects with DecisionSpentEarly at some height and one it rejects with
\* MarketUsingResolvableDecision at some height.
C22_Witness ==
    /\ last.op = "validate_body"
    /\ IsOk(last.res)
    /\ RejectedAtSomeHeight(Current, last.body, "DecisionSpentEarly")
    /\ RejectedAtSomeHeight(Current, last.body, "MarketUsingResolvableDecision")

====
